---- MODULE Spec2Model ----
(***************************************************************************)
(* Fork-join range parallelisation of ATen: at::parallel_for and           *)
(* at::parallel_reduce as built with OpenMP                                *)
(* (aten/src/ATen/ParallelOpenMP.h).                                       *)
(*                                                                         *)
(* One behaviour is one top-level call made from outside any parallel      *)
(* region.  Thread 0 is the calling (orchestrating) thread, which OpenMP   *)
(* also makes thread 0 of the team; the team has omp_get_max_threads()     *)
(* threads.  The work function f is opaque: every invocation is logged in  *)
(* `calls` and then either returns or raises; the combine function sf may  *)
(* raise too.  Under SpecNested a unit that is inside f may itself call    *)
(* parallel_for / parallel_reduce (a nested call, made from inside the     *)
(* parallel region).                                                       *)
(***************************************************************************)
EXTENDS Integers, Sequences, FiniteSets

\* ------------------------------------------------------------------ bounds
\* begin ranges over 0 .. MaxBegin, end over begin .. MaxEnd, grain_size over
\* 0 .. MaxGrain and the number of threads over 1 .. MaxThreads.
MaxBegin == 1
MaxEnd == 4
MaxGrain == 3
MaxThreads == 3
\* SpecNested: the work functions of one top-level call make at most
\* MaxNested nested calls; there end <= NestMaxEnd and at most NestMaxThreads
\* threads.
MaxNested == 1
NestMaxEnd == 2
NestMaxThreads == 2
\* int64_t is modelled as a two's complement integer of IntW bits.
IntW == 8
WideSpan == 4

VARIABLES
  op,          \* "for" | "reduce": which entry point is called
  begin,       \* argument begin
  end,         \* argument end
  grain_size,  \* argument grain_size
  maxThreads,  \* omp_get_max_threads(); also the size of the team
  pc,          \* position of the orchestrating thread
  path,        \* "none" | "empty" | "seq" | "par": branch the call took
  wpc,         \* wpc[t]: position of team thread t inside the region
  wunit,       \* wunit[t]: unit (tid / loop index id) thread t is running, else 0
  todo,        \* loop indices of `omp parallel for` not yet started
  num_results, \* parallel_reduce: num_results
  curId,       \* curId[t]: thread-local "current thread id" of thread t
  saved,       \* saved[t]: stack of old ids held by live ThreadIdGuards
  err_flag,    \* std::atomic_flag err_flag
  eptr,        \* std::exception_ptr eptr
  raisedBy,    \* units whose work function raised (history)
  calls,       \* log of the invocations of f
  ncalls,      \* number of invocations of f
  results,     \* parallel_reduce: the vector results
  written,     \* number of stores into each slot of results (history)
  result,      \* parallel_reduce: the accumulator / returned value
  cidx,        \* position of the combine loop
  ncombine,    \* number of invocations of sf
  exc,         \* the failure the call raised to its caller
  nestedLeft,  \* nested calls the work functions may still make
  innerCalls   \* log of the nested calls made

vars == <<op, begin, end, grain_size, maxThreads, pc, path, wpc, wunit, todo,
          num_results, curId, saved, err_flag, eptr, raisedBy, calls, ncalls,
          results, written, result, cidx, ncombine, exc, nestedLeft, innerCalls>>

Threads == 0 .. (MaxThreads - 1)
Team == 0 .. (maxThreads - 1)

\* ---------------------------------------------------------- int64 arithmetic
IntMod == 2 ^ IntW
IntHalf == 2 ^ (IntW - 1)
Wrap(x) == ((x + IntHalf) % IntMod) - IntHalf
Add(a, b) == Wrap(a + b)
Sub(a, b) == Wrap(a - b)
Mul(a, b) == Wrap(a * b)
Min(a, b) == IF b < a THEN b ELSE a

\* divup(x, y) for y > 0: the ceiling of x / y.
divup(x, y) == (x + y - 1) \div y

\* divup(x, 0) divides by zero, which is undefined: the division traps (as
\* idiv does on x86-64, see NumResultsMayTrap) or leaves the quotient 0 (as
\* sdiv does on AArch64).
DivByZeroQuotients(x) == {0}

\* ------------------------------------------------------------------ values
\* scalar_t values are sequences, sf is concatenation (associative, not
\* commutative) and ident is the empty sequence, its two-sided identity.
ident == << >>
Zero == << -1 >>
Range(b, e) == [i \in 1 .. (e - b) |-> b + i - 1]
f(b, e, seed) == seed \o Range(b, e)
sf(a, b) == a \o b

NoExc == [src |-> "none", unit |-> -1]
FExc(u) == [src |-> "f", unit |-> u]
SfExc(k) == [src |-> "sf", unit |-> k]

\* ------------------------------------------------------------ ThreadIdGuard
GuardEnter(t, id) ==
  /\ saved' = [saved EXCEPT ![t] = <<curId[t]>> \o @]
  /\ curId' = [curId EXCEPT ![t] = id]

GuardExit(t) ==
  /\ curId' = [curId EXCEPT ![t] = Head(saved[t])]
  /\ saved' = [saved EXCEPT ![t] = Tail(@)]

\* ---------------------------------------------------------------- PoolSizing
omp_in_parallel(t) == pc = "region" /\ wpc[t] # "off"

\* ------------------------------------------------------------------- Init
Init ==
  /\ op \in {"for", "reduce"}
  /\ begin \in 0 .. MaxBegin
  /\ end \in begin .. MaxEnd
  /\ grain_size \in 0 .. MaxGrain
  /\ maxThreads \in 1 .. MaxThreads
  /\ pc = "call"
  /\ path = "none"
  /\ wpc = [t \in Threads |-> "off"]
  /\ wunit = [t \in Threads |-> 0]
  /\ todo = {}
  /\ num_results = 0
  /\ curId = [t \in Threads |-> 0]
  /\ saved = [t \in Threads |-> << >>]
  /\ err_flag = FALSE
  /\ eptr = NoExc
  /\ raisedBy = {}
  /\ calls = {}
  /\ ncalls = 0
  /\ results = << >>
  /\ written = << >>
  /\ result = Zero
  /\ cidx = 0
  /\ ncombine = 0
  /\ exc = NoExc
  /\ nestedLeft = MaxNested
  /\ innerCalls = {}

\* ------------------------------------------------------ sizing decisions
\* parallel_for: use_parallel
UseParallelFor_IgnoreNesting(b, e, g, inpar) ==
  LET numiter == Sub(e, b)
  IN  numiter > g /\ numiter > 1 /\ maxThreads > 1

UseParallelFor_NoMinIter(b, e, g, inpar) ==
  LET numiter == Sub(e, b)
  IN  numiter > g /\ maxThreads > 1 /\ ~inpar

UseParallelFor(b, e, g, inpar) ==
  LET numiter == Sub(e, b)
  IN  numiter > g /\ numiter > 1 /\ maxThreads > 1 /\ ~inpar

\* parallel_reduce: the condition of the sequential branch
ReduceSequential_Strict(b, e, g, inpar) ==
  Sub(e, b) < g \/ inpar \/ maxThreads = 1

ReduceSequential(b, e, g, inpar) ==
  Sub(e, b) <= g \/ inpar \/ maxThreads = 1

TakesSequential(o, b, e, g, inpar) ==
  IF o = "for" THEN ~UseParallelFor(b, e, g, inpar)
               ELSE ReduceSequential(b, e, g, inpar)

\* parallel_for, inside the region: the chunk of team thread tid
ForNumThreads ==
  IF grain_size > 0 THEN Min(maxThreads, divup(Sub(end, begin), grain_size))
                    ELSE maxThreads
\* int64_t tid = omp_get_thread_num();
ForTid_Zero(t) == 0
ForTid(t) == t
\* int64_t chunk_size = divup((end - begin), num_threads);
ForChunkSize_Floor == Sub(end, begin) \div ForNumThreads
ForChunkSize == divup(Sub(end, begin), ForNumThreads)
ForBeginTid(tid) == Add(begin, Mul(tid, ForChunkSize))
ForEndTid(tid) == Min(end, Add(ForChunkSize, ForBeginTid(tid)))

\* parallel_reduce: num_results and the chunk of loop index id
NumResultsOutcomes ==
  IF grain_size = 0 THEN DivByZeroQuotients(Sub(end, begin))
                    ELSE {divup(Sub(end, begin), grain_size)}
NumResultsMayTrap == grain_size = 0
ReduceBegin_NoStride(id) == Add(begin, id)
ReduceBegin(id) == Add(begin, Mul(id, grain_size))
ReduceEnd_NoClamp(id) == Add(ReduceBegin(id), grain_size)
ReduceEnd(id) ==
  Add(ReduceBegin(id), Min(Sub(end, ReduceBegin(id)), grain_size))
\* the third argument of f in the loop
ReduceSeed == ident
\* the id bound around f in the loop: omp_get_thread_num()
ReduceTid_Zero(t) == 0
ReduceTid(t) == t

\* --------------------------------------------------------------- the log
\* One record per invocation of f: the call it belongs to (lvl, k), the
\* sub-range and seed passed, the thread it ran on and the current thread
\* id inside it.  Which thread runs which index of the loop of
\* parallel_reduce is the runtime's choice and is not logged (AnyThread);
\* the threads inside f are in wpc, and their ids in curId.
AnyThread == -1
CallRec(lvl, k, b, e, t, id, pth) ==
  [lvl |-> lvl, k |-> k, b |-> b, e |-> e, th |-> t, id |-> id,
   seed |-> ident, path |-> pth]

Log(r) ==
  /\ calls' = calls \cup {r}
  /\ ncalls' = ncalls + 1

inputs == <<op, begin, end, grain_size, maxThreads>>
reduceVars == <<results, written, result, cidx, ncombine>>
errVars == <<err_flag, eptr, raisedBy>>
nestVars == <<nestedLeft, innerCalls>>
idVars == <<curId, saved>>
logVars == <<calls, ncalls>>

\* ------------------------------------------------------ the calling thread
\* begin >= end: return at once (reduce: return ident)
CallEmpty_ReturnsZero ==
  /\ pc = "call"
  /\ begin >= end
  /\ pc' = "returned"
  /\ path' = "empty"
  /\ result' = IF op = "reduce" THEN Zero ELSE result
  /\ UNCHANGED <<inputs, wpc, wunit, todo, num_results, idVars, errVars,
                 logVars, results, written, cidx, ncombine, exc, nestVars>>

CallEmpty ==
  /\ pc = "call"
  /\ begin >= end
  /\ pc' = "returned"
  /\ path' = "empty"
  /\ result' = IF op = "reduce" THEN ident ELSE result
  /\ UNCHANGED <<inputs, wpc, wunit, todo, num_results, idVars, errVars,
                 logVars, results, written, cidx, ncombine, exc, nestVars>>

\* the sequential branch: ThreadIdGuard tid_guard(0); f(begin, end [, ident])
CallSequential ==
  /\ pc = "call"
  /\ begin < end
  /\ TakesSequential(op, begin, end, grain_size, omp_in_parallel(0))
  /\ GuardEnter(0, 0)
  /\ Log(CallRec("outer", 0, begin, end, 0, curId'[0], "seq"))
  /\ pc' = "seq_f"
  /\ path' = "seq"
  /\ UNCHANGED <<inputs, wpc, wunit, todo, num_results, errVars, reduceVars,
                 exc, nestVars>>

SeqReturn ==
  /\ pc = "seq_f"
  /\ GuardExit(0)
  /\ result' = IF op = "reduce" THEN f(begin, end, ident) ELSE result
  /\ pc' = "returned"
  /\ UNCHANGED <<inputs, path, wpc, wunit, todo, num_results, errVars,
                 logVars, results, written, cidx, ncombine, exc, nestVars>>

SeqRaise ==
  /\ pc = "seq_f"
  /\ GuardExit(0)
  /\ raisedBy' = raisedBy \cup {0}
  /\ exc' = FExc(0)
  /\ pc' = "raised"
  /\ UNCHANGED <<inputs, path, wpc, wunit, todo, num_results, err_flag, eptr,
                 logVars, reduceVars, nestVars>>

\* parallel_for: #pragma omp parallel
ForkFor ==
  /\ pc = "call"
  /\ op = "for"
  /\ begin < end
  /\ ~TakesSequential(op, begin, end, grain_size, omp_in_parallel(0))
  /\ pc' = "region"
  /\ path' = "par"
  /\ wpc' = [t \in Threads |-> IF t \in Team THEN "start" ELSE "off"]
  /\ UNCHANGED <<inputs, wunit, todo, num_results, idVars, errVars, logVars,
                 reduceVars, exc, nestVars>>

\* parallel_reduce: num_results, results(num_results), #pragma omp parallel for
ForkReduce ==
  /\ pc = "call"
  /\ op = "reduce"
  /\ begin < end
  /\ ~TakesSequential(op, begin, end, grain_size, omp_in_parallel(0))
  /\ \E n \in NumResultsOutcomes :
       /\ num_results' = n
       /\ results' = [i \in 0 .. (n - 1) |-> Zero]
       /\ written' = [i \in 0 .. (n - 1) |-> 0]
       /\ todo' = 0 .. (n - 1)
  /\ pc' = "region"
  /\ path' = "par"
  /\ wpc' = [t \in Threads |-> IF t \in Team THEN "start" ELSE "off"]
  /\ UNCHANGED <<inputs, wunit, idVars, errVars, logVars, result, cidx,
                 ncombine, exc, nestVars>>

\* parallel_reduce: the division by zero of divup(end - begin, 0) traps
ReduceTrap ==
  /\ pc = "call"
  /\ op = "reduce"
  /\ begin < end
  /\ ~TakesSequential(op, begin, end, grain_size, omp_in_parallel(0))
  /\ NumResultsMayTrap
  /\ pc' = "trapped"
  /\ path' = "par"
  /\ UNCHANGED <<inputs, wpc, wunit, todo, num_results, idVars, errVars,
                 logVars, reduceVars, exc, nestVars>>

\* ------------------------------------------------------- the team threads
\* where a thread goes after its unit: parallel_for has one unit per thread,
\* the loop of parallel_reduce takes the next index
AfterUnit == IF op = "for" THEN "done" ELSE "start"

\* parallel_for: the body of the region up to the call of f
ForBody(t) ==
  /\ pc = "region"
  /\ op = "for"
  /\ wpc[t] = "start"
  /\ IF ForBeginTid(ForTid(t)) < end
       THEN /\ GuardEnter(t, ForTid(t))
            /\ Log(CallRec("outer", t, ForBeginTid(ForTid(t)),
                           ForEndTid(ForTid(t)), t, curId'[t], "par"))
            /\ wpc' = [wpc EXCEPT ![t] = "inF"]
            /\ wunit' = [wunit EXCEPT ![t] = t]
       ELSE /\ wpc' = [wpc EXCEPT ![t] = "done"]
            /\ UNCHANGED <<wunit, idVars, logVars>>
  /\ UNCHANGED <<inputs, pc, path, todo, num_results, errVars, reduceVars,
                 exc, nestVars>>

\* parallel_reduce: one iteration of the loop up to the call of f; the
\* schedule is the runtime's, so any thread may get any index
ReduceIter(t, id) ==
  /\ pc = "region"
  /\ op = "reduce"
  /\ wpc[t] = "start"
  /\ id \in todo
  /\ todo' = todo \ {id}
  /\ GuardEnter(t, ReduceTid(t))
  /\ Log([CallRec("outer", id, ReduceBegin(id), ReduceEnd(id), AnyThread,
                  AnyThread, "par") EXCEPT !.seed = ReduceSeed])
  /\ wpc' = [wpc EXCEPT ![t] = "inF"]
  /\ wunit' = [wunit EXCEPT ![t] = id]
  /\ UNCHANGED <<inputs, pc, path, num_results, errVars, reduceVars, exc,
                 nestVars>>

\* parallel_reduce: no index is left for this thread
ReduceLoopEnd_StopOnError(t) ==
  /\ pc = "region"
  /\ op = "reduce"
  /\ wpc[t] = "start"
  /\ todo = {} \/ err_flag
  /\ wpc' = [wpc EXCEPT ![t] = "done"]
  /\ UNCHANGED <<inputs, pc, path, wunit, todo, num_results, idVars, errVars,
                 logVars, reduceVars, exc, nestVars>>

ReduceLoopEnd(t) ==
  /\ pc = "region"
  /\ op = "reduce"
  /\ wpc[t] = "start"
  /\ todo = {}
  /\ wpc' = [wpc EXCEPT ![t] = "done"]
  /\ UNCHANGED <<inputs, pc, path, wunit, todo, num_results, idVars, errVars,
                 logVars, reduceVars, exc, nestVars>>

\* results_data[id] = f(...)
StoreResult_SlotZero(t) ==
  IF op = "reduce"
    THEN /\ results' = [results EXCEPT ![0] =
                          f(ReduceBegin(wunit[t]), ReduceEnd(wunit[t]),
                            ReduceSeed)]
         /\ written' = [written EXCEPT ![0] = @ + 1]
    ELSE UNCHANGED <<results, written>>

StoreResult(t) ==
  IF op = "reduce"
    THEN /\ results' = [results EXCEPT ![wunit[t]] =
                          f(ReduceBegin(wunit[t]), ReduceEnd(wunit[t]),
                            ReduceSeed)]
         /\ written' = [written EXCEPT ![wunit[t]] = @ + 1]
    ELSE UNCHANGED <<results, written>>

\* f returns: the guard is destroyed, the result (reduce) is stored
FReturn(t) ==
  /\ pc = "region"
  /\ wpc[t] = "inF"
  /\ GuardExit(t)
  /\ StoreResult(t)
  /\ wpc' = [wpc EXCEPT ![t] = AfterUnit]
  /\ wunit' = [wunit EXCEPT ![t] = 0]
  /\ UNCHANGED <<inputs, pc, path, todo, num_results, errVars,
                 logVars, result, cidx, ncombine, exc, nestVars>>

\* catch (...) { if (!err_flag.test_and_set()) ... }
Catch_NoFlag(t) ==
  /\ raisedBy' = raisedBy \cup {wunit[t]}
  /\ err_flag' = TRUE
  /\ wpc' = [wpc EXCEPT ![t] = "store"]
  /\ wunit' = wunit

Catch(t) ==
  /\ raisedBy' = raisedBy \cup {wunit[t]}
  /\ IF ~err_flag
       THEN /\ err_flag' = TRUE
            /\ wpc' = [wpc EXCEPT ![t] = "store"]
            /\ wunit' = wunit
       ELSE /\ err_flag' = err_flag
            /\ wpc' = [wpc EXCEPT ![t] = AfterUnit]
            /\ wunit' = [wunit EXCEPT ![t] = 0]

\* f raises: the guard is destroyed by the unwinding, the handler runs
FRaise_NoUnwind(t) ==
  /\ pc = "region"
  /\ wpc[t] = "inF"
  /\ Catch(t)
  /\ UNCHANGED <<inputs, pc, path, todo, num_results, idVars, eptr, logVars,
                 reduceVars, exc, nestVars>>

FRaise(t) ==
  /\ pc = "region"
  /\ wpc[t] = "inF"
  /\ GuardExit(t)
  /\ Catch(t)
  /\ UNCHANGED <<inputs, pc, path, todo, num_results, eptr, logVars,
                 reduceVars, exc, nestVars>>

\* eptr = std::current_exception();
StoreEptr_Lost(t) ==
  /\ pc = "region"
  /\ wpc[t] = "store"
  /\ wpc' = [wpc EXCEPT ![t] = AfterUnit]
  /\ wunit' = [wunit EXCEPT ![t] = 0]
  /\ UNCHANGED <<inputs, pc, path, todo, num_results, idVars, errVars,
                 logVars, reduceVars, exc, nestVars>>

StoreEptr(t) ==
  /\ pc = "region"
  /\ wpc[t] = "store"
  /\ eptr' = FExc(wunit[t])
  /\ wpc' = [wpc EXCEPT ![t] = AfterUnit]
  /\ wunit' = [wunit EXCEPT ![t] = 0]
  /\ UNCHANGED <<inputs, pc, path, todo, num_results, idVars, err_flag,
                 raisedBy, logVars, reduceVars, exc, nestVars>>

\* ------------------------------------------------------------ nested calls
\* The work function of unit wunit[t], running on thread t inside the
\* region, calls parallel_for / parallel_reduce(ib, ie, ig, ...).
InnerCall(t, iop, ib, ie, ig) ==
  LET k == MaxNested - nestedLeft
  IN
  /\ pc = "region"
  /\ wpc[t] = "inF"
  /\ nestedLeft > 0
  /\ nestedLeft' = nestedLeft - 1
  /\ innerCalls' = innerCalls \cup
       {[k |-> k, th |-> t, op |-> iop, b |-> ib, e |-> ie, g |-> ig,
         outerId |-> curId[t],
         ret |-> IF ib >= ie /\ iop = "reduce" THEN ident ELSE Zero]}
  /\ IF ib >= ie
       THEN \* returns at once
            UNCHANGED <<wpc, idVars, logVars>>
       ELSE /\ GuardEnter(t, 0)
            /\ Log(CallRec("inner", k, ib, ie, t, curId'[t],
                 IF TakesSequential(iop, ib, ie, ig, omp_in_parallel(t))
                   THEN "seq" ELSE "par"))
            /\ wpc' = [wpc EXCEPT ![t] = "inInner"]
  /\ UNCHANGED <<inputs, pc, path, wunit, todo, num_results, errVars,
                 reduceVars, exc>>

\* the inner f returns; the inner call returns into the outer f
InnerReturn(t) ==
  /\ pc = "region"
  /\ wpc[t] = "inInner"
  /\ GuardExit(t)
  /\ wpc' = [wpc EXCEPT ![t] = "inF"]
  /\ UNCHANGED <<inputs, pc, path, wunit, todo, num_results, errVars,
                 logVars, reduceVars, exc, nestVars>>

\* the inner f raises: the failure leaves the inner call and the outer f,
\* destroying both guards, and reaches the handler of the unit
InnerRaise(t) ==
  /\ pc = "region"
  /\ wpc[t] = "inInner"
  /\ curId' = [curId EXCEPT ![t] = Head(Tail(saved[t]))]
  /\ saved' = [saved EXCEPT ![t] = Tail(Tail(@))]
  /\ Catch(t)
  /\ UNCHANGED <<inputs, pc, path, todo, num_results, eptr, logVars,
                 reduceVars, exc, nestVars>>

\* ------------------------------------------------------------ after the region
\* the implicit barrier that ends the region
RegionEnded_NoBarrier == wpc[0] = "done"
RegionEnded == \A t \in Team : wpc[t] = "done"

Join ==
  /\ pc = "region"
  /\ RegionEnded
  /\ pc' = "check"
  /\ UNCHANGED <<inputs, path, wpc, wunit, todo, num_results, idVars,
                 errVars, logVars, reduceVars, exc, nestVars>>

\* if (eptr) std::rethrow_exception(eptr);
Rethrow ==
  /\ pc = "check"
  /\ eptr # NoExc
  /\ exc' = eptr
  /\ pc' = "raised"
  /\ UNCHANGED <<inputs, path, wpc, wunit, todo, num_results, idVars,
                 errVars, logVars, reduceVars, nestVars>>

\* parallel_for: the end of the function
ForReturn ==
  /\ pc = "check"
  /\ eptr = NoExc
  /\ op = "for"
  /\ pc' = "returned"
  /\ UNCHANGED <<inputs, path, wpc, wunit, todo, num_results, idVars,
                 errVars, logVars, reduceVars, exc, nestVars>>

\* parallel_reduce: scalar_t result = ident;
CombineStart_Unchecked ==
  /\ pc = "check"
  /\ op = "reduce"
  /\ result' = ident
  /\ cidx' = 0
  /\ pc' = "combine"
  /\ UNCHANGED <<inputs, path, wpc, wunit, todo, num_results, idVars,
                 errVars, logVars, results, written, ncombine, exc, nestVars>>

CombineStart ==
  /\ pc = "check"
  /\ eptr = NoExc
  /\ op = "reduce"
  /\ result' = ident
  /\ cidx' = 0
  /\ pc' = "combine"
  /\ UNCHANGED <<inputs, path, wpc, wunit, todo, num_results, idVars,
                 errVars, logVars, results, written, ncombine, exc, nestVars>>

\* result = sf(result, partial_result);
CombineStep_Reversed ==
  /\ pc = "combine"
  /\ cidx < num_results
  /\ result' = sf(results[cidx], result)
  /\ cidx' = cidx + 1
  /\ ncombine' = ncombine + 1
  /\ UNCHANGED <<inputs, pc, path, wpc, wunit, todo, num_results, idVars,
                 errVars, logVars, results, written, exc, nestVars>>

CombineStep ==
  /\ pc = "combine"
  /\ cidx < num_results
  /\ result' = sf(result, results[cidx])
  /\ cidx' = cidx + 1
  /\ ncombine' = ncombine + 1
  /\ UNCHANGED <<inputs, pc, path, wpc, wunit, todo, num_results, idVars,
                 errVars, logVars, results, written, exc, nestVars>>

\* sf raises: nothing catches it, the call raises it
CombineRaise ==
  /\ pc = "combine"
  /\ cidx < num_results
  /\ ncombine' = ncombine + 1
  /\ exc' = SfExc(cidx)
  /\ pc' = "raised"
  /\ UNCHANGED <<inputs, path, wpc, wunit, todo, num_results, idVars,
                 errVars, logVars, results, written, result, cidx, nestVars>>

\* return result;
ReduceReturn ==
  /\ pc = "combine"
  /\ cidx >= num_results
  /\ pc' = "returned"
  /\ UNCHANGED <<inputs, path, wpc, wunit, todo, num_results, idVars,
                 errVars, logVars, reduceVars, exc, nestVars>>

\* ------------------------------------------------------------------- Next
\* The nested calls the work function makes: either entry point, over the
\* empty range (begin, begin) or over the whole range (begin, end) again,
\* with the grain size of the enclosing call.
InnerOps == {"for", "reduce"}
InnerEnds == {begin, end}

Next ==
  \/ CallEmpty
  \/ CallSequential
  \/ SeqReturn
  \/ SeqRaise
  \/ ForkFor
  \/ ForkReduce
  \/ ReduceTrap
  \/ \E t \in Team : ForBody(t)
  \/ \E t \in Team : \E id \in todo : ReduceIter(t, id)
  \/ \E t \in Team : ReduceLoopEnd(t)
  \/ \E t \in Team : FReturn(t)
  \/ \E t \in Team : FRaise(t)
  \/ \E t \in Team : StoreEptr(t)
  \/ Join
  \/ Rethrow
  \/ ForReturn
  \/ CombineStart
  \/ CombineStep
  \/ CombineRaise
  \/ ReduceReturn

\* One top-level call whose work function makes no nested call.
Spec == Init /\ [][Next]_vars

\* One top-level call whose work functions make up to MaxNested nested calls.
InitNested ==
  /\ Init
  /\ end <= NestMaxEnd
  /\ maxThreads <= NestMaxThreads

NextNested ==
  \/ Next
  \/ \E t \in Team : \E iop \in InnerOps : \E ie \in InnerEnds :
       InnerCall(t, iop, begin, ie, grain_size)
  \/ \E t \in Team : InnerReturn(t)
  \/ \E t \in Team : InnerRaise(t)

SpecNested == InitNested /\ [][NextNested]_vars

\* One top-level call whose range lies in the last WideSpan values below the
\* largest representable integer.
IntMax == IntHalf - 1
InitWide ==
  /\ op \in {"for", "reduce"}
  /\ begin \in (IntMax - WideSpan) .. IntMax
  /\ end \in begin .. IntMax
  /\ grain_size \in 0 .. MaxGrain
  /\ maxThreads \in 1 .. MaxThreads
  /\ pc = "call"
  /\ path = "none"
  /\ wpc = [t \in Threads |-> "off"]
  /\ wunit = [t \in Threads |-> 0]
  /\ todo = {}
  /\ num_results = 0
  /\ curId = [t \in Threads |-> 0]
  /\ saved = [t \in Threads |-> << >>]
  /\ err_flag = FALSE
  /\ eptr = NoExc
  /\ raisedBy = {}
  /\ calls = {}
  /\ ncalls = 0
  /\ results = << >>
  /\ written = << >>
  /\ result = Zero
  /\ cidx = 0
  /\ ncombine = 0
  /\ exc = NoExc
  /\ nestedLeft = MaxNested
  /\ innerCalls = {}

SpecWide == InitWide /\ [][Next]_vars

\* ------------------------------------------------------------ properties
Outer == {r \in calls : r.lvl = "outer"}
Inner == {r \in calls : r.lvl = "inner"}
Finished == pc \in {"returned", "raised"}
NumIter == end - begin
Covers(r, i) == r.b <= i /\ i < r.e
Disjoint(r1, r2) == r1.e <= r2.b \/ r2.e <= r1.b
\* the ceiling of x / y, for x >= 1 and y >= 1
CeilDiv(x, y) == CHOOSE q \in 1 .. x : (q - 1) * y < x /\ x <= q * y

\* C1 (RangeExecutor coverage): in a parallel_for call every sub-range
\* passed to f is a non-empty part of [begin, end), no sub-range is passed
\* twice, the sub-ranges are pairwise disjoint, a team thread whose chunk
\* start is >= end invokes f zero times, and when the call has returned or
\* raised every index of [begin, end) lies in one of them.
C1_Coverage ==
  op = "for" =>
    /\ \A r \in Outer : begin <= r.b /\ r.b < r.e /\ r.e <= end
    /\ \A r1, r2 \in Outer : r1 # r2 => Disjoint(r1, r2)
    /\ ncalls = Cardinality(Outer)
    /\ path = "par" =>
         \A r \in Outer :
           begin + r.k * CeilDiv(NumIter, ForNumThreads) < end
    /\ Finished =>
         \A i \in begin .. (end - 1) : \E r \in Outer : Covers(r, i)

\* a parallel-path parallel_for has returned after one team thread found its
\* chunk start beyond end and the others covered the range
C1_Witness ==
  /\ op = "for"
  /\ path = "par"
  /\ pc = "returned"
  /\ Cardinality(Outer) >= 2
  /\ \E t \in Team : \A r \in Outer : r.k # t

\* C2 as stated (failure propagation): in the parallel path the call raises
\* if and only if some unit's work function raised, and the failure raised
\* is one raised by a unit of the call.
C2_RaisesIffUnitRaised ==
  path = "par" =>
    /\ pc = "raised" => raisedBy # {} /\ exc \in {FExc(u) : u \in raisedBy}
    /\ pc = "returned" => raisedBy = {}

\* C2 as amended: in the parallel path, once the region has ended the slot
\* eptr holds a failure iff some unit's work function raised, and it is a
\* failure of one of those units; the call raises exactly that failure, or,
\* when no unit raised, a failure of the combine function of
\* parallel_reduce; it returns normally only if no unit raised.
C2_FailurePropagation ==
  path = "par" =>
    /\ eptr # NoExc => eptr \in {FExc(u) : u \in raisedBy}
    /\ pc \in {"check", "combine", "returned", "raised"} =>
         (eptr # NoExc <=> raisedBy # {})
    /\ pc = "raised" =>
         \/ raisedBy # {} /\ exc = eptr
         \/ raisedBy = {} /\ op = "reduce" /\ exc.src = "sf"
    /\ pc = "returned" => raisedBy = {} /\ exc = NoExc

\* the call re-raised the captured failure after two units had raised
C2_Witness ==
  /\ path = "par"
  /\ pc = "raised"
  /\ Cardinality(raisedBy) >= 2
  /\ exc = eptr
  /\ exc.src = "f"

\* C3 (reduce failure skips combination): in the parallel path of
\* parallel_reduce, once a chunk's work function has raised, sf is never
\* invoked and the call does not return a value; the combine loop runs only
\* after every chunk has finished with no failure captured.
C3_FailureSkipsCombine ==
  (op = "reduce" /\ path = "par") =>
    /\ raisedBy # {} => ncombine = 0 /\ pc \notin {"combine", "returned"}
    /\ (pc = "combine" \/ ncombine > 0) =>
         /\ raisedBy = {}
         /\ eptr = NoExc
         /\ todo = {}
         /\ \A t \in Team : wpc[t] = "done"
         /\ \A i \in 0 .. (num_results - 1) : written[i] = 1

\* a parallel_reduce raised after one chunk raised and another had stored
\* its partial result
C3_Witness ==
  /\ op = "reduce"
  /\ path = "par"
  /\ pc = "raised"
  /\ raisedBy # {}
  /\ ncombine = 0
  /\ \E i \in 0 .. (num_results - 1) : written[i] = 1

\* C4 (fork-join barrier): whenever the orchestrating thread is past the
\* region (about to read eptr, combining, returned or raised) no loop index
\* is left and every team thread has finished its units.
C4_Barrier ==
  (path = "par" /\ pc \in {"check", "combine", "returned", "raised"}) =>
    /\ todo = {}
    /\ \A t \in Team : wpc[t] = "done"
    /\ \A t \in Threads : saved[t] = << >>

\* the orchestrating thread is about to read eptr after a team of at least
\* two threads, one of which raised, has finished
C4_Witness ==
  /\ path = "par"
  /\ pc = "check"
  /\ maxThreads >= 2
  /\ eptr # NoExc
  /\ Cardinality(Outer) >= 2

\* the invocations of f made by nested call c
InnerOf(c) == {r \in Inner : r.k = c.k}

\* C5 (nested-region fallback): a parallel_for or parallel_reduce call made
\* by the work function of a unit never dispatches units: over a non-empty
\* range it invokes f exactly once, with the whole range, on the calling
\* thread, and the thread id current inside that invocation is 0; over an
\* empty range it invokes nothing.
C5_NestedFallback ==
  /\ \A c \in innerCalls :
       IF c.b < c.e
         THEN InnerOf(c) = {CallRec("inner", c.k, c.b, c.e, c.th, 0, "seq")}
         ELSE InnerOf(c) = {}
  /\ \A r \in Inner : \E c \in innerCalls : r.k = c.k
  /\ ncalls = Cardinality(calls)
  /\ \A t \in Team : wpc[t] = "inInner" => curId[t] = 0

\* a unit bound to a thread id other than 0 is inside the f of a nested
\* parallel_for whose range is larger than 1 and than the grain size
C5_Witness ==
  \E c \in innerCalls :
    /\ c.op = "for"
    /\ c.e - c.b > 1
    /\ c.e - c.b > c.g
    /\ c.th # 0
    /\ c.outerId = c.th
    /\ wpc[c.th] = "inInner"
    /\ InnerOf(c) # {}

\* the partial result of chunk i of parallel_reduce
Partial(i) == f(ReduceBegin(i), ReduceEnd(i), ident)
\* combine(...combine(combine(ident, partial[0]), partial[1])..., partial[k-1])
RECURSIVE FoldPartials(_)
FoldPartials(k) ==
  IF k = 0 THEN ident ELSE sf(FoldPartials(k - 1), Partial(k - 1))

\* C6 (sequential equivalence of reduce): with grain_size > 0 the value the
\* parallel path of parallel_reduce returns is f(begin, end, ident), the
\* value of the sequential path.
C6_SequentialEquivalence ==
  (op = "reduce" /\ path = "par" /\ grain_size > 0 /\ pc = "returned") =>
    result = f(begin, end, ident)

\* the parallel path returned after combining at least two chunks, the last
\* of them shorter than the grain size
C6_Witness ==
  /\ op = "reduce"
  /\ path = "par"
  /\ pc = "returned"
  /\ grain_size > 0
  /\ num_results >= 2
  /\ NumIter % grain_size # 0
  /\ ncombine = num_results

\* C7 (deterministic combination order): while the combine loop of the
\* parallel path of parallel_reduce has taken k partial results the
\* accumulator is the left-to-right combination of the partial results of
\* chunks 0 .. k-1 seeded by ident, whatever thread computed them and in
\* whatever order; the value returned is that of all num_results chunks.
C7_CombinationOrder ==
  (op = "reduce" /\ path = "par") =>
    /\ pc = "combine" => result = FoldPartials(cidx)
    /\ pc = "returned" => result = FoldPartials(num_results)

\* the parallel path returned the combination of at least three chunks of
\* at least two threads
C7_Witness ==
  /\ op = "reduce"
  /\ path = "par"
  /\ pc = "returned"
  /\ num_results >= 3
  /\ maxThreads >= 2
  /\ Len(result) = NumIter

\* the thread ids current inside the invocations of f
ObservedIds == {r.id : r \in Outer}
\* T of the claim: min(available threads, ceil((end-begin)/grainSize)), or the
\* available threads when grainSize = 0
EffectiveWorkers ==
  IF grain_size > 0 THEN Min(maxThreads, CeilDiv(NumIter, grain_size))
                    ELSE maxThreads

\* C8 as stated (distinct identities): after a parallel-path parallel_for
\* the thread ids observed inside the units that ran f are exactly
\* {0, ..., T-1}.
C8_IdsAreAllOfT ==
  (op = "for" /\ path = "par" /\ Finished) =>
    ObservedIds = 0 .. (EffectiveWorkers - 1)

\* C8 as amended: after a parallel-path parallel_for the thread ids observed
\* inside the units that ran f are exactly {0, ..., K-1}, where
\* K = ceil((end-begin) / ceil((end-begin)/T)) <= T is the number of
\* non-empty chunks, and no id is observed by two units.
C8_DistinctIds ==
  (op = "for" /\ path = "par") =>
    /\ \A r1, r2 \in Outer : r1.id = r2.id => r1 = r2
    /\ ncalls = Cardinality(Outer)
    /\ ObservedIds \subseteq 0 .. (EffectiveWorkers - 1)
    /\ Finished =>
         ObservedIds =
           0 .. (CeilDiv(NumIter, CeilDiv(NumIter, EffectiveWorkers)) - 1)

\* a parallel-path parallel_for finished with fewer units than T
C8_Witness ==
  /\ op = "for"
  /\ path = "par"
  /\ Finished
  /\ Cardinality(ObservedIds) >= 2
  /\ Cardinality(ObservedIds) < EffectiveWorkers

\* C9 (decision to parallelize in parallel_for): a top-level parallel_for
\* over a non-empty range dispatches units iff the range is larger than the
\* grain size and than 1 and more than one thread is available (its caller
\* is outside any parallel region); otherwise, and in every parallel_for
\* called from inside a region, f is invoked exactly once, with
\* (begin, end), on the calling thread under thread id 0.
C9_DecisionToParallelize ==
  /\ (op = "for" /\ begin < end /\ path # "none") =>
       /\ path = "par" <=>
            (NumIter > grain_size /\ NumIter > 1 /\ maxThreads > 1)
       /\ path = "par" => pc # "seq_f" /\ wpc[0] # "off"
       /\ path = "seq" =>
            /\ calls = {CallRec("outer", 0, begin, end, 0, 0, "seq")}
            /\ ncalls = 1
            /\ \A t \in Threads : wpc[t] = "off"
  /\ \A c \in innerCalls :
       (c.op = "for" /\ c.b < c.e) =>
         InnerOf(c) = {CallRec("inner", c.k, c.b, c.e, c.th, 0, "seq")}

\* a top-level parallel_for with several threads ran f(begin, end) once on
\* the calling thread because the range of 2 is not larger than the grain
C9_Witness ==
  /\ op = "for"
  /\ path = "seq"
  /\ pc = "returned"
  /\ maxThreads > 1
  /\ NumIter = 2
  /\ grain_size >= 2
  /\ calls = {CallRec("outer", 0, begin, end, 0, 0, "seq")}

\* C10 as stated (grain size 0 in reduce): a parallel_reduce with
\* grain_size = 0 over a non-empty range, with more than one thread and
\* outside a parallel region, takes the parallel path, produces one chunk
\* per element, chunk i covering [begin+i, begin+i+1), and returns their
\* left-to-right combination.
C10_GrainZeroOneChunkPerElement ==
  (op = "reduce" /\ grain_size = 0 /\ begin < end /\ maxThreads > 1) =>
    /\ path # "none" => path = "par"
    /\ pc # "trapped"
    /\ pc \in {"check", "combine", "returned"} =>
         /\ num_results = NumIter
         /\ {<<r.k, r.b, r.e>> : r \in Outer} =
              {<<i, begin + i, begin + i + 1>> : i \in 0 .. (NumIter - 1)}
    /\ pc = "returned" => result = Range(begin, end)

\* C11 (thread-id scope restoration): a thread that is inside the f of its
\* unit has the id of the unit current and the previous id saved; inside the
\* f of a nested sequential call it has 0 current, and the id of the unit is
\* current again once that call has returned; a thread outside any unit,
\* whether its f returned or raised, has its previous id (0) back and holds
\* no guard; so after the call returned or raised every thread, the calling
\* one included, has the id it had before the call.
C11_ScopeRestoration ==
  /\ \A t \in Threads :
       /\ wpc[t] = "inF" => curId[t] = t /\ saved[t] = <<0>>
       /\ wpc[t] = "inInner" => curId[t] = 0 /\ saved[t] = <<t, 0>>
       /\ (wpc[t] \in {"off", "start", "store", "done"}
             /\ ~(t = 0 /\ pc = "seq_f")) =>
            curId[t] = 0 /\ saved[t] = << >>
  /\ pc = "seq_f" => curId[0] = 0 /\ saved[0] = <<0>>
  /\ Finished => \A t \in Threads : curId[t] = 0 /\ saved[t] = << >>

\* a nested call over a non-empty range, made by a unit bound to an id other
\* than 0, has returned and the unit is back in its f under its own id
C11_Witness ==
  \E c \in innerCalls :
    /\ c.b < c.e
    /\ c.th # 0
    /\ InnerOf(c) # {}
    /\ wpc[c.th] = "inF"
    /\ curId[c.th] = c.th

\* C12 (empty range): a call with begin = end, whatever grain_size and the
\* number of threads, returns normally without invoking f or sf, and
\* parallel_reduce returns ident; the same holds for a call with an empty
\* range made by the work function of a unit, inside the parallel region.
C12_EmptyRange ==
  /\ begin = end =>
       \/ pc = "call"
       \/ /\ pc = "returned"
          /\ path = "empty"
          /\ calls = {}
          /\ ncalls = 0
          /\ ncombine = 0
          /\ exc = NoExc
          /\ \A t \in Threads : wpc[t] = "off"
          /\ op = "reduce" => result = ident
  /\ \A c \in innerCalls :
       c.b = c.e => /\ InnerOf(c) = {}
                    /\ c.op = "reduce" => c.ret = ident

\* parallel_reduce over an empty range, with grain_size 0 and more than one
\* thread available, has returned ident
C12_Witness ==
  /\ op = "reduce"
  /\ begin = end
  /\ grain_size = 0
  /\ maxThreads > 1
  /\ pc = "returned"
  /\ result = ident

\* the units of the parallel path whose sub-range is not empty
ExpectedUnits ==
  IF op = "for"
    THEN {t \in Team : begin + t * ForChunkSize < end}
    ELSE 0 .. (num_results - 1)
AfterRegion == path = "par" /\ pc \in {"check", "combine", "returned", "raised"}

\* C13 (no cancellation, exactly-once invocation): on the parallel path no
\* unit has f invoked twice (every invocation is a distinct record and every
\* record a distinct unit), and once the region has ended every unit with a
\* non-empty sub-range has had f invoked, whichever units raised; in
\* parallel_reduce every unit that did not raise has stored its result.
C13_ExactlyOnce ==
  path = "par" =>
    /\ ncalls = Cardinality(Outer)
    /\ \A r1, r2 \in Outer : r1.k = r2.k => r1 = r2
    /\ {r.k : r \in Outer} \subseteq ExpectedUnits
    /\ raisedBy \subseteq {r.k : r \in Outer}
    /\ AfterRegion =>
         /\ {r.k : r \in Outer} = ExpectedUnits
         /\ op = "reduce" =>
              \A i \in ExpectedUnits :
                written[i] = IF i \in raisedBy THEN 0 ELSE 1

\* a call of three or more units has raised although some unit did not
C13_Witness ==
  /\ path = "par"
  /\ pc = "raised"
  /\ raisedBy # {}
  /\ Cardinality(Outer) >= 3
  /\ Cardinality(Outer) = Cardinality(ExpectedUnits)
  /\ \E r \in Outer : r.k \notin raisedBy

\* the threads that won the test-and-set and have not stored eptr yet
Winners == {t \in Threads : wpc[t] = "store"}
SingleWinnerState ==
  /\ Cardinality(Winners) <= 1
  /\ ~(Winners # {} /\ eptr # NoExc)
  /\ err_flag <=> (Winners # {} \/ eptr # NoExc)
  /\ path = "par" => (raisedBy # {} <=> err_flag)
  /\ path # "par" => ~err_flag
  /\ eptr # NoExc => \E u \in raisedBy : eptr = FExc(u)
SingleWinnerStep ==
  /\ eptr # NoExc => eptr' = eptr
  /\ err_flag => err_flag'

\* C14 (single winner): whenever units raise, in any interleaving, exactly
\* one thread wins the test-and-set: at most one thread is ever about to
\* store eptr, and none once eptr is stored; the flag is set exactly when a
\* unit of the parallel path has raised; eptr, once stored, is the failure of a unit that raised
\* and no step changes it; no step clears the flag.
C14_SingleWinner == []SingleWinnerState /\ [][SingleWinnerStep]_vars

\* two units have raised while the winner has not stored its failure yet
C14_Witness ==
  /\ err_flag
  /\ eptr = NoExc
  /\ Cardinality(raisedBy) >= 2
  /\ Cardinality(Winners) = 1

\* C15 (reduce chunk partition): on the parallel path of parallel_reduce
\* with grain_size > 0 there are ceil((end - begin) / grain_size) chunks;
\* the invocation of f for chunk i gets begin + i * grain_size,
\* min(end, begin + i * grain_size + grain_size) and ident; every chunk is
\* non-empty and inside [begin, end), two chunks are disjoint, and once the
\* loop has ended every chunk has been computed and every index of
\* [begin, end) lies in one.
C15_ReduceChunks ==
  (op = "reduce" /\ path = "par" /\ grain_size > 0) =>
    /\ num_results = CeilDiv(NumIter, grain_size)
    /\ \A r \in Outer :
         /\ r.k \in 0 .. (num_results - 1)
         /\ r.b = begin + r.k * grain_size
         /\ r.e = Min(end, begin + r.k * grain_size + grain_size)
         /\ begin <= r.b /\ r.b < r.e /\ r.e <= end
         /\ r.seed = ident
    /\ \A r1, r2 \in Outer : r1 # r2 => Disjoint(r1, r2)
    /\ AfterRegion =>
         /\ {r.k : r \in Outer} = 0 .. (num_results - 1)
         /\ \A i \in begin .. (end - 1) : \E r \in Outer : Covers(r, i)

\* the loop has ended for a range that does not start at 0 and whose last
\* chunk is shorter than grain_size
C15_Witness ==
  /\ op = "reduce"
  /\ AfterRegion
  /\ begin > 0
  /\ num_results >= 2
  /\ Cardinality(Outer) = num_results
  /\ \E r \in Outer : r.e = end /\ r.e - r.b < grain_size

\* C16 (reduce sequential path): a parallel_reduce call over a non-empty
\* range made outside any parallel region takes the sequential path exactly
\* when end - begin <= grain_size or one thread is configured, and one made
\* by the work function of a unit always takes it; on that path f is invoked
\* once, with the whole range and ident, on the calling thread under thread
\* id 0, sf is not invoked, and the call returns f(begin, end, ident).
C16_ReduceSequentialPath ==
  /\ (op = "reduce" /\ begin < end /\ pc # "call") =>
       /\ path = "seq" <=> (NumIter <= grain_size \/ maxThreads = 1)
       /\ path = "seq" =>
            /\ calls = {CallRec("outer", 0, begin, end, 0, 0, "seq")}
            /\ ncalls = 1
            /\ ncombine = 0
            /\ pc = "seq_f" => curId[0] = 0
            /\ pc = "returned" => result = f(begin, end, ident)
  /\ \A c \in innerCalls :
       (c.op = "reduce" /\ c.b < c.e) =>
         InnerOf(c) = {CallRec("inner", c.k, c.b, c.e, c.th, 0, "seq")}

\* with more than one thread and a range of exactly grain_size indices the
\* call has returned from the sequential path
C16_Witness ==
  /\ op = "reduce"
  /\ maxThreads > 1
  /\ begin < end
  /\ NumIter = grain_size
  /\ path = "seq"
  /\ pc = "returned"
  /\ result = f(begin, end, ident)

\* C17 (write-once partial results): on the parallel path of parallel_reduce
\* no slot of results is written twice; a written slot i holds the partial
\* result of chunk i and chunk i has been computed by a unit that did not
\* raise, an unwritten slot still holds its initial value; sf reads no slot
\* while the loop runs, and when the combine step runs every thread has
\* finished the loop, no unit has raised and every slot has been written
\* exactly once.
C17_WriteOnce ==
  (op = "reduce" /\ path = "par") =>
    /\ \A i \in DOMAIN written :
         /\ written[i] <= 1
         /\ written[i] = 1 =>
              /\ results[i] = Partial(i)
              /\ \E r \in Outer : r.k = i
              /\ i \notin raisedBy
         /\ written[i] = 0 => results[i] = Zero
    /\ pc = "region" => ncombine = 0 /\ cidx = 0
    /\ (pc = "combine" \/ ncombine > 0) =>
         /\ \A t \in Team : wpc[t] = "done"
         /\ raisedBy = {}
         /\ \A i \in 0 .. (num_results - 1) : written[i] = 1

\* the combine step has read the first of two or more slots
C17_Witness ==
  /\ op = "reduce"
  /\ pc = "combine"
  /\ num_results >= 2
  /\ cidx >= 1
  /\ \A i \in 0 .. (num_results - 1) : written[i] = 1

\* the threads that are inside the f of a unit of the call
InWork == {t \in Threads : pc = "region" /\ wpc[t] = "inF"}

\* C18 (concurrent id uniqueness): at every moment two threads that are
\* inside the work function of units of the call have different current
\* ids, and each such id is at least 0 and below the number of threads of
\* the team of the call; in parallel_reduce also when there are more chunks
\* than threads.
C18_ConcurrentIds ==
  /\ \A t1, t2 \in InWork : t1 # t2 => curId[t1] # curId[t2]
  /\ \A t \in InWork :
       /\ 0 <= curId[t]
       /\ curId[t] < maxThreads

\* parallel_reduce with more chunks than threads: two threads are inside f
\* at once after more chunks than there are threads have been started
C18_Witness ==
  /\ op = "reduce"
  /\ num_results > maxThreads
  /\ Cardinality(InWork) >= 2
  /\ Cardinality(Outer) > maxThreads

\* C19 (sub-range bounds under fixed-width arithmetic): with wrapping
\* IntW-bit integers, every sub-range passed to f on the parallel path of
\* parallel_for satisfies begin <= subBegin < subEnd <= end, also for a
\* range that ends close to the largest representable value.
C19_SubRangeBounds ==
  (op = "for" /\ path = "par") =>
    \A r \in Outer : begin <= r.b /\ r.b < r.e /\ r.e <= end

====
